---- MODULE Spec2Model ----
(***************************************************************************)
(* Model of the intrepid PID controller (src/src/lib.rs): the              *)
(* ControllerBuilder, Controller::new, set_target, reset and compute.      *)
(*                                                                         *)
(* Numbers: the f64 fields and arguments are modelled as exact rationals   *)
(* <<n, d>> in lowest terms with d > 0, so the arithmetic of compute is    *)
(* the arithmetic of the source without rounding or overflow.  The one     *)
(* extra value is F64_MAX (std::f64::MAX, the builder's default clamp),    *)
(* written <<1, 0>>: it is greater than every rational of the model.       *)
(***************************************************************************)
EXTENDS Integers, Sequences, FiniteSets, TLC

\* ------------------------------------------------------------------------
\* Bounds of the model
\* ------------------------------------------------------------------------

\* compute calls made on one controller over its life
MaxCalls == 3

\* ------------------------------------------------------------------------
\* Rational arithmetic (the f64 operators + - * / > == of the source)
\* ------------------------------------------------------------------------

Abs(i) == IF i < 0 THEN -i ELSE i

RECURSIVE GCD(_, _)
GCD(a, b) == IF b = 0 THEN a ELSE GCD(b, a % b)

\* the rational n/d (d # 0) in lowest terms with a positive denominator
Rat(n, d) ==
    LET g == GCD(Abs(n), Abs(d))
        s == IF d < 0 THEN -1 ELSE 1
    IN  <<(s * n) \div g, (s * d) \div g>>

Zero == <<0, 1>>

Add(x, y) == Rat(x[1] * y[2] + y[1] * x[2], x[2] * y[2])

Sub(x, y) == Rat(x[1] * y[2] - y[1] * x[2], x[2] * y[2])

Mul(x, y) == Rat(x[1] * y[1], x[2] * y[2])

\* x / y for y # 0
Div(x, y) == Rat(x[1] * y[2], x[2] * y[1])

\* x > y; also right when y or x is F64_MAX = <<1, 0>>
Gt(x, y) == x[1] * y[2] > y[1] * x[2]

\* std::f64::MAX: above every value the model computes
F64_MAX == <<1, 0>>

\* ------------------------------------------------------------------------
\* Inputs the caller may supply
\* ------------------------------------------------------------------------

\* gains offered to with_p_gain, with_i_gain and with_d_gain
PGains == {Zero, Rat(1, 2)}

IGains == {Zero, Rat(1, 2)}

DGains == {Zero, Rat(1, 2), Rat(-1, 1)}

Targets == {Rat(10, 1), Rat(-1, 1)}

MaxOutputs == {Rat(2, 1)}

Inputs == {Rat(2, 1), Rat(-3, 1)}

Times == {Zero, Rat(2, 1)}

\* a target other than `target`, for the second controller
OtherTarget(target) == CHOOSE t \in Targets : t # target

\* ------------------------------------------------------------------------
\* State
\* ------------------------------------------------------------------------

VARIABLES
    pc,         \* "builder": configuring; "failed": build returned Err;
                \* "running": build returned Ok and the controller is live
    builder,    \* the ControllerBuilder
    controller, \* the Controller (NoController before a successful build)
    output,     \* value returned by the latest compute (NoOutput before)
    log,        \* calls of compute since build or the last reset, oldest first
    ncalls,     \* number of compute calls since build
    shadow,     \* a second Controller, built from the same builder but with
                \* another target; it is given every compute and reset of
                \* `controller` and none of its set_target calls
    shadowOutput, \* value returned by the latest compute of `shadow`
    fresh,      \* a third Controller: at build and at each reset of
                \* `controller` it is built anew (Controller::new) from
                \* controller's configuration and current target, then
                \* given the calls `controller` is given
    freshOutput \* value returned by the latest compute of `fresh`

vars == <<pc, builder, controller, output, log, ncalls,
          shadow, shadowOutput, fresh, freshOutput>>

twins == <<shadow, shadowOutput, fresh, freshOutput>>

NoController == [none |-> TRUE]

NoOutput == <<0, 0>>

\* ------------------------------------------------------------------------
\* ControllerBuilder
\* ------------------------------------------------------------------------

new_with_target(target) ==
    [kp |-> Zero, ki |-> Zero, kd |-> Zero, target |-> target,
     max_output_value |-> F64_MAX, derivative_on_measurement |-> FALSE]

Configuring == pc \in {"builder", "failed"}

with_p_gain(kp) ==
    /\ Configuring
    /\ builder' = [builder EXCEPT !.kp = kp]
    /\ pc' = "builder"
    /\ UNCHANGED <<controller, output, log, ncalls, twins>>

with_d_gain(kd) ==
    /\ Configuring
    /\ builder' = [builder EXCEPT !.kd = kd]
    /\ pc' = "builder"
    /\ UNCHANGED <<controller, output, log, ncalls, twins>>

with_i_gain(ki) ==
    /\ Configuring
    /\ builder' = [builder EXCEPT !.ki = ki]
    /\ pc' = "builder"
    /\ UNCHANGED <<controller, output, log, ncalls, twins>>

with_derivative_on_measurement ==
    /\ Configuring
    /\ builder' = [builder EXCEPT !.derivative_on_measurement = TRUE]
    /\ pc' = "builder"
    /\ UNCHANGED <<controller, output, log, ncalls, twins>>

with_max_output_value(max_output_value) ==
    /\ Configuring
    /\ builder' = [builder EXCEPT !.max_output_value = max_output_value]
    /\ pc' = "builder"
    /\ UNCHANGED <<controller, output, log, ncalls, twins>>

\* Controller::new
new(kp, ki, kd, target, derivative_on_measurement, max_output_value) ==
    [kp |-> kp, ki |-> ki, kd |-> kd, target |-> target,
     derivative_on_measurement |-> derivative_on_measurement,
     max_output_value |-> max_output_value,
     sum_error |-> Zero, last_error |-> Zero, last_input |-> Zero]

\* seeded fault: rejects as soon as one gain is zero
AllGainsZero_Any(b) == b.kp = Zero \/ b.ki = Zero \/ b.kd = Zero

\* the condition of build's Err branch
AllGainsZero(b) == b.kp = Zero /\ b.ki = Zero /\ b.kd = Zero

build ==
    /\ pc = "builder"
    /\ IF AllGainsZero(builder)
       THEN /\ pc' = "failed"
            /\ controller' = NoController
            /\ shadow' = NoController
            /\ fresh' = NoController
       ELSE /\ pc' = "running"
            /\ controller' = new(builder.kp, builder.ki, builder.kd,
                                 builder.target,
                                 builder.derivative_on_measurement,
                                 builder.max_output_value)
            /\ shadow' = new(builder.kp, builder.ki, builder.kd,
                             OtherTarget(builder.target),
                             builder.derivative_on_measurement,
                             builder.max_output_value)
            /\ fresh' = new(builder.kp, builder.ki, builder.kd,
                            builder.target,
                            builder.derivative_on_measurement,
                            builder.max_output_value)
    /\ UNCHANGED <<builder, output, log, ncalls, shadowOutput, freshOutput>>

\* ------------------------------------------------------------------------
\* Controller
\* ------------------------------------------------------------------------

\* seeded fault: the new target also clears the integral
SetTarget_ClearsSum(c, target) ==
    [c EXCEPT !.target = target, !.sum_error = Zero]

SetTarget(c, target) == [c EXCEPT !.target = target]

set_target(target) ==
    /\ pc = "running"
    /\ controller' = SetTarget(controller, target)
    /\ fresh' = SetTarget(fresh, target)
    /\ UNCHANGED <<pc, builder, output, log, ncalls, shadow, shadowOutput,
                   freshOutput>>

\* seeded fault: the integral survives the reset
Reset_KeepsSum(c) == [c EXCEPT !.last_error = Zero, !.last_input = Zero]

Reset(c) ==
    [c EXCEPT !.last_error = Zero, !.last_input = Zero, !.sum_error = Zero]

reset ==
    /\ pc = "running"
    /\ controller' = Reset(controller)
    /\ log' = <<>>
    /\ shadow' = Reset(shadow)
    /\ fresh' = new(controller.kp, controller.ki, controller.kd,
                    controller.target, controller.derivative_on_measurement,
                    controller.max_output_value)
    /\ freshOutput' = NoOutput
    /\ UNCHANGED <<pc, builder, output, ncalls, shadowOutput>>

\* let current_error
CurrentError(c, input) == Sub(c.target, input)

\* seeded fault: the sum restarts at each call
CurrentSumError_NoHistory(c, input, time_elapsed) ==
    Mul(CurrentError(c, input), time_elapsed)

\* let current_sum_error
CurrentSumError(c, input, time_elapsed) ==
    Add(c.sum_error, Mul(CurrentError(c, input), time_elapsed))

\* seeded fault: the two derivative modes exchanged
DerivativeError_Swapped(c, input, time_elapsed) ==
    IF time_elapsed = Zero
    THEN Zero
    ELSE IF c.derivative_on_measurement
         THEN Div(Sub(CurrentError(c, input), c.last_error), time_elapsed)
         ELSE Div(Sub(input, c.last_input), time_elapsed)

\* seeded fault: the derivative always taken on the error
DerivativeError_AlwaysOnError(c, input, time_elapsed) ==
    IF time_elapsed = Zero
    THEN Zero
    ELSE Div(Sub(CurrentError(c, input), c.last_error), time_elapsed)

\* seeded fault: zero elapsed time taken as one time unit
DerivativeError_NoGuard(c, input, time_elapsed) ==
    IF time_elapsed = Zero
    THEN IF c.derivative_on_measurement
         THEN Sub(input, c.last_input)
         ELSE Sub(CurrentError(c, input), c.last_error)
    ELSE IF c.derivative_on_measurement
         THEN Div(Sub(input, c.last_input), time_elapsed)
         ELSE Div(Sub(CurrentError(c, input), c.last_error), time_elapsed)

\* let derivative_error
DerivativeError(c, input, time_elapsed) ==
    IF time_elapsed = Zero
    THEN Zero
    ELSE IF c.derivative_on_measurement
         THEN Div(Sub(input, c.last_input), time_elapsed)
         ELSE Div(Sub(CurrentError(c, input), c.last_error), time_elapsed)

\* seeded fault: the proportional term scaled by the elapsed time
Output_TimedP(c, input, time_elapsed) ==
    LET p_term == Mul(Mul(c.kp, CurrentError(c, input)), time_elapsed)
        i_term == Mul(c.ki, CurrentSumError(c, input, time_elapsed))
        d_term == Mul(c.kd, DerivativeError(c, input, time_elapsed))
    IN  Add(Add(p_term, i_term), d_term)

\* let output = p_term + i_term + d_term
Output(c, input, time_elapsed) ==
    LET p_term == Mul(c.kp, CurrentError(c, input))
        i_term == Mul(c.ki, CurrentSumError(c, input, time_elapsed))
        d_term == Mul(c.kd, DerivativeError(c, input, time_elapsed))
    IN  Add(Add(p_term, i_term), d_term)

\* seeded fault: anti-windup, the sum is frozen while the output is saturated
UpdateState_AntiWindup(c, input, time_elapsed) ==
    [c EXCEPT !.last_error = CurrentError(c, input),
              !.last_input = input,
              !.sum_error =
                 IF Gt(Output(c, input, time_elapsed), c.max_output_value)
                 THEN c.sum_error
                 ELSE CurrentSumError(c, input, time_elapsed)]

\* "update internal state"
UpdateState(c, input, time_elapsed) ==
    [c EXCEPT !.last_error = CurrentError(c, input),
              !.last_input = input,
              !.sum_error = CurrentSumError(c, input, time_elapsed)]

\* seeded fault: no clamp
Clamp_None(out, max_output_value) == out

\* the final if of compute
Clamp(out, max_output_value) ==
    IF Gt(out, max_output_value) THEN max_output_value ELSE out

\* the value compute returns
Compute(c, input, time_elapsed) ==
    Clamp(Output(c, input, time_elapsed), c.max_output_value)

compute(input, time_elapsed) ==
    /\ pc = "running"
    /\ ncalls < MaxCalls
    /\ controller' = UpdateState(controller, input, time_elapsed)
    /\ output' = Compute(controller, input, time_elapsed)
    /\ log' = Append(log, [input |-> input, time_elapsed |-> time_elapsed,
                           target |-> controller.target])
    /\ ncalls' = ncalls + 1
    /\ shadow' = UpdateState(shadow, input, time_elapsed)
    /\ shadowOutput' = Compute(shadow, input, time_elapsed)
    /\ fresh' = UpdateState(fresh, input, time_elapsed)
    /\ freshOutput' = Compute(fresh, input, time_elapsed)
    /\ UNCHANGED <<pc, builder>>

\* ------------------------------------------------------------------------
\* Specification
\* ------------------------------------------------------------------------

Init ==
    /\ pc = "builder"
    /\ \E target \in Targets : builder = new_with_target(target)
    /\ controller = NoController
    /\ output = NoOutput
    /\ log = <<>>
    /\ ncalls = 0
    /\ shadow = NoController
    /\ shadowOutput = NoOutput
    /\ fresh = NoController
    /\ freshOutput = NoOutput

Next ==
    \/ \E kp \in PGains : with_p_gain(kp)
    \/ \E kd \in DGains : with_d_gain(kd)
    \/ \E ki \in IGains : with_i_gain(ki)
    \/ with_derivative_on_measurement
    \/ \E m \in MaxOutputs : with_max_output_value(m)
    \/ build
    \/ \E target \in Targets : set_target(target)
    \/ reset
    \/ \E input \in Inputs, time_elapsed \in Times : compute(input, time_elapsed)

Spec == Init /\ [][Next]_vars

\* ------------------------------------------------------------------------
\* Vocabulary of the properties
\* ------------------------------------------------------------------------

Running == pc = "running"

\* the latest compute call since build or the last reset (log # <<>>)
LastCall == log[Len(log)]

\* a step of compute
ComputeStep == ncalls' = ncalls + 1

\* a step in which build returns
BuildStep == pc = "builder" /\ pc' # "builder"

OnlyP(c) == c.kp # Zero /\ c.ki = Zero /\ c.kd = Zero

OnlyI(c) == c.kp = Zero /\ c.ki # Zero /\ c.kd = Zero

OnlyD(c) == c.kp = Zero /\ c.ki = Zero /\ c.kd # Zero

\* sum of error_i * elapsed_time_i over the calls of l
RECURSIVE SumLog(_)
SumLog(l) ==
    IF l = <<>>
    THEN Zero
    ELSE Add(SumLog(SubSeq(l, 1, Len(l) - 1)),
             Mul(Sub(l[Len(l)].target, l[Len(l)].input),
                 l[Len(l)].time_elapsed))

\* every call of l has the target, measurement and elapsed time of the first
SameCalls(l) == \A i \in 1..Len(l) : l[i] = l[1]

\* ------------------------------------------------------------------------
\* C1  Output clamp
\* ------------------------------------------------------------------------

\* C1: whatever the configuration and the calls made before, a compute call
\* never returns more than max_output; and when the unclamped sum
\* kp*error + ki*accumulated_error + kd*derivative is at most max_output
\* (negative sums included) the call returns exactly that sum.
C1_OutputClamp ==
    [][ComputeStep =>
        LET c == controller
            m == log'[Len(log')].input
            t == log'[Len(log')].time_elapsed
            error == Sub(c.target, m)
            acc == Add(c.sum_error, Mul(error, t))
            deriv == IF t = Zero THEN Zero
                     ELSE IF c.derivative_on_measurement
                          THEN Div(Sub(m, c.last_input), t)
                          ELSE Div(Sub(error, c.last_error), t)
            sum == Add(Add(Mul(c.kp, error), Mul(c.ki, acc)), Mul(c.kd, deriv))
        IN  /\ ~Gt(output', c.max_output_value)
            /\ ~Gt(sum, c.max_output_value) => output' = sum]_vars

\* a proportional-only controller whose kp*error exceeds max_output has
\* just returned max_output
C1_Witness ==
    /\ Running /\ log # <<>>
    /\ OnlyP(controller)
    /\ controller.max_output_value # F64_MAX
    /\ Gt(Mul(controller.kp, controller.last_error), controller.max_output_value)
    /\ output = controller.max_output_value

\* ------------------------------------------------------------------------
\* C2  Builder rejection
\* ------------------------------------------------------------------------

\* C2: build fails exactly when the three gains are all 0; otherwise it
\* succeeds with a controller carrying the builder's gains, target,
\* max_output and mode, and accumulated_error = last_error =
\* last_measurement = 0.
C2_BuildRejection ==
    [][BuildStep =>
        LET allZero == builder.kp = Zero /\ builder.ki = Zero /\ builder.kd = Zero
        IN  /\ allZero <=> pc' = "failed"
            /\ ~allZero =>
                 /\ pc' = "running"
                 /\ controller'.kp = builder.kp
                 /\ controller'.ki = builder.ki
                 /\ controller'.kd = builder.kd
                 /\ controller'.target = builder.target
                 /\ controller'.max_output_value = builder.max_output_value
                 /\ controller'.derivative_on_measurement
                      = builder.derivative_on_measurement
                 /\ controller'.sum_error = Zero
                 /\ controller'.last_error = Zero
                 /\ controller'.last_input = Zero]_vars

\* build has just succeeded on a builder whose only nonzero gain is a
\* negative derivative gain
C2_Witness ==
    /\ Running /\ ncalls = 0
    /\ builder.kp = Zero /\ builder.ki = Zero /\ Gt(Zero, builder.kd)
    /\ controller.kd = builder.kd
    /\ controller.sum_error = Zero

\* ------------------------------------------------------------------------
\* C3  Pure proportional
\* ------------------------------------------------------------------------

\* C3: with only the proportional gain set (default max_output) every
\* compute returns kp * (target - measurement), whatever the elapsed time
\* and the calls that came before.
C3_PureProportional ==
    (Running /\ log # <<>> /\ OnlyP(controller)
       /\ controller.max_output_value = F64_MAX)
    => output = Mul(controller.kp, Sub(LastCall.target, LastCall.input))

\* a proportional-only controller has computed at least twice, the last time
\* with a nonzero elapsed time and another measurement than the time before
C3_Witness ==
    /\ Running /\ Len(log) >= 2
    /\ OnlyP(controller)
    /\ controller.max_output_value = F64_MAX
    /\ LastCall.time_elapsed # Zero
    /\ LastCall.input # log[Len(log) - 1].input
    /\ controller.sum_error # Zero
    /\ output # Zero

\* ------------------------------------------------------------------------
\* C4  Pure integral
\* ------------------------------------------------------------------------

\* C4: on a freshly built controller with only the integral gain set
\* (default max_output), the n-th of n successive compute calls with the
\* same measurement and elapsed time returns
\* ki * (target - measurement) * elapsed_time * n.
C4_PureIntegral ==
    (Running /\ log # <<>> /\ ncalls = Len(log) /\ SameCalls(log)
       /\ OnlyI(controller) /\ controller.max_output_value = F64_MAX)
    => output = Mul(Mul(Mul(controller.ki,
                            Sub(LastCall.target, LastCall.input)),
                        LastCall.time_elapsed),
                    <<Len(log), 1>>)

\* an integral-only controller has answered every one of MaxCalls identical
\* calls with a nonzero elapsed time
C4_Witness ==
    /\ Running /\ Len(log) = MaxCalls /\ ncalls = Len(log) /\ SameCalls(log)
    /\ OnlyI(controller) /\ controller.max_output_value = F64_MAX
    /\ LastCall.time_elapsed # Zero
    /\ output # Zero

\* ------------------------------------------------------------------------
\* C5  Pure derivative, calls after the first
\* ------------------------------------------------------------------------

\* C5: with only the derivative gain set (default max_output), an unchanged
\* target and a constant nonzero elapsed time t, compute call n > 1 returns
\* kd * (error_n - error_{n-1}) / t in ON_ERROR mode and
\* kd * (measurement_n - measurement_{n-1}) / t in ON_MEASUREMENT mode,
\* the (n-1)-th values being those of the call just before.
C5_PureDerivative ==
    (Running /\ Len(log) >= 2
       /\ OnlyD(controller) /\ controller.max_output_value = F64_MAX
       /\ \A i \in 1..Len(log) :
             /\ log[i].target = log[1].target
             /\ log[i].time_elapsed = log[1].time_elapsed
       /\ log[1].time_elapsed # Zero)
    => LET n == Len(log)
           t == log[n].time_elapsed
           errorN == Sub(log[n].target, log[n].input)
           errorP == Sub(log[n - 1].target, log[n - 1].input)
       IN  output =
             IF controller.derivative_on_measurement
             THEN Div(Mul(controller.kd, Sub(log[n].input, log[n - 1].input)), t)
             ELSE Div(Mul(controller.kd, Sub(errorN, errorP)), t)

\* a derivative-only controller on measurement has computed three times at
\* the same nonzero elapsed time, the last two measurements differing
C5_Witness ==
    /\ Running /\ Len(log) >= 3
    /\ OnlyD(controller) /\ controller.max_output_value = F64_MAX
    /\ controller.derivative_on_measurement
    /\ \A i \in 1..Len(log) :
          /\ log[i].target = log[1].target
          /\ log[i].time_elapsed = log[1].time_elapsed
    /\ log[1].time_elapsed # Zero
    /\ log[Len(log)].input # log[Len(log) - 1].input
    /\ output # Zero

\* ------------------------------------------------------------------------
\* C6  Pure derivative, first call and zero elapsed time
\* ------------------------------------------------------------------------

\* C6 as stated: with only the derivative gain set (default max_output) the
\* first compute call after build returns 0, and so does every compute call
\* with elapsed time 0.
C6_FirstCallZero ==
    (Running /\ log # <<>>
       /\ OnlyD(controller) /\ controller.max_output_value = F64_MAX)
    => /\ ncalls = 1 => output = Zero
       /\ LastCall.time_elapsed = Zero => output = Zero

\* C6 as amended: with only the derivative gain set (default max_output)
\* every compute call with elapsed time 0 returns 0; the first compute call
\* after build, made with elapsed time t # 0, returns
\* kd * ((target - measurement) / t) in ON_ERROR mode and
\* kd * (measurement / t) in ON_MEASUREMENT mode (last_error and
\* last_measurement start at 0).
C6_ZeroTimeOrFirstDelta ==
    (Running /\ log # <<>>
       /\ OnlyD(controller) /\ controller.max_output_value = F64_MAX)
    => /\ LastCall.time_elapsed = Zero => output = Zero
       /\ (ncalls = 1 /\ LastCall.time_elapsed # Zero) =>
            output =
              IF controller.derivative_on_measurement
              THEN Mul(controller.kd,
                       Div(LastCall.input, LastCall.time_elapsed))
              ELSE Mul(controller.kd,
                       Div(Sub(LastCall.target, LastCall.input),
                           LastCall.time_elapsed))

\* the first compute call of a derivative-only controller, made with a
\* nonzero elapsed time, has returned a nonzero value
C6_Witness ==
    /\ Running /\ ncalls = 1 /\ Len(log) = 1
    /\ OnlyD(controller) /\ controller.max_output_value = F64_MAX
    /\ LastCall.time_elapsed # Zero
    /\ output # Zero

\* ------------------------------------------------------------------------
\* C7  reset
\* ------------------------------------------------------------------------

\* C7: reset leaves gains, target, mode and max_output as they are and sets
\* accumulated_error, last_error and last_measurement to 0; from then on the
\* controller is indistinguishable from a freshly built one (`fresh`, built
\* by Controller::new from the same configuration and the current target):
\* given the same calls the two hold the same state and return the same
\* outputs.
C7_ResetIsFresh ==
    /\ [](Running =>
            /\ controller = fresh
            /\ log # <<>> => output = freshOutput)
    /\ [][reset =>
            /\ controller'.kp = controller.kp
            /\ controller'.ki = controller.ki
            /\ controller'.kd = controller.kd
            /\ controller'.target = controller.target
            /\ controller'.derivative_on_measurement
                 = controller.derivative_on_measurement
            /\ controller'.max_output_value = controller.max_output_value
            /\ controller'.sum_error = Zero
            /\ controller'.last_error = Zero
            /\ controller'.last_input = Zero]_vars

\* a controller that computed, had its target changed, was reset and has
\* computed again since, with a running state that is not all zero
C7_Witness ==
    /\ Running /\ log # <<>> /\ ncalls > Len(log)
    /\ controller.target # builder.target
    /\ controller.sum_error # Zero
    /\ controller.last_error # Zero
    /\ output # Zero
    /\ output = freshOutput

\* ------------------------------------------------------------------------
\* C8  set_target
\* ------------------------------------------------------------------------

\* C8: set_target replaces the target and nothing else (accumulated_error,
\* last_error, last_measurement, gains, max_output and mode keep their
\* values), so what was accumulated before the call is part of the integral
\* term of the next compute: an integral-only controller (default
\* max_output) returns ki times the sum of error_i * elapsed_time_i over all
\* calls since build or reset, each error taken against the target in force
\* at its call.
C8_SetTargetFrame ==
    /\ [][\A target \in Targets :
            set_target(target) =>
              controller' = [kp |-> controller.kp, ki |-> controller.ki,
                             kd |-> controller.kd, target |-> target,
                             derivative_on_measurement
                               |-> controller.derivative_on_measurement,
                             max_output_value |-> controller.max_output_value,
                             sum_error |-> controller.sum_error,
                             last_error |-> controller.last_error,
                             last_input |-> controller.last_input]]_vars
    /\ []((Running /\ log # <<>> /\ OnlyI(controller)
             /\ controller.max_output_value = F64_MAX)
          => output = Mul(controller.ki, SumLog(log)))

\* an integral-only controller computed, had its target changed and computed
\* again: the output holds the integral of both calls
C8_Witness ==
    /\ Running /\ Len(log) = 2
    /\ OnlyI(controller) /\ controller.max_output_value = F64_MAX
    /\ log[1].target # log[2].target
    /\ log[1].time_elapsed # Zero /\ log[2].time_elapsed # Zero
    /\ output # Mul(controller.ki,
                    Mul(Sub(log[2].target, log[2].input), log[2].time_elapsed))
    /\ controller.target = log[2].target

\* ------------------------------------------------------------------------
\* C9  Integral accumulation without anti-windup
\* ------------------------------------------------------------------------

\* C9: after any calls since build or the last reset, accumulated_error is
\* the sum of error_i * elapsed_time_i over those compute calls, clamped or
\* not, last_error is the latest error and last_measurement the latest
\* measurement.
C9_Accumulation ==
    Running =>
      /\ controller.sum_error = SumLog(log)
      /\ log # <<>> =>
           /\ controller.last_error = Sub(LastCall.target, LastCall.input)
           /\ controller.last_input = LastCall.input
      /\ log = <<>> =>
           /\ controller.last_error = Zero
           /\ controller.last_input = Zero

\* an integral-only controller whose output was already saturated at
\* max_output one call ago is saturated again, and its accumulator has grown
C9_Witness ==
    /\ Running /\ Len(log) >= 2
    /\ OnlyI(controller) /\ controller.max_output_value # F64_MAX
    /\ Gt(Mul(controller.ki, SumLog(SubSeq(log, 1, Len(log) - 1))),
          controller.max_output_value)
    /\ Gt(Mul(controller.ki, controller.sum_error),
          Mul(controller.ki, SumLog(SubSeq(log, 1, Len(log) - 1))))
    /\ output = controller.max_output_value

\* ------------------------------------------------------------------------
\* C10  No derivative kick on measurement
\* ------------------------------------------------------------------------

\* C10: in ON_MEASUREMENT mode a derivative-only controller returns the same
\* outputs as `shadow`, which has the same gain and max_output, was built
\* with another target and is given the same compute calls but none of the
\* set_target calls; in ON_ERROR mode (default max_output) a set_target that
\* changes the target between two samples changes the output of the next
\* compute made with a nonzero elapsed time.
C10_NoDerivativeKick ==
    /\ []((Running /\ log # <<>> /\ OnlyD(controller)
             /\ controller.derivative_on_measurement)
          => output = shadowOutput)
    /\ [][(/\ ComputeStep
           /\ log # <<>>
           /\ OnlyD(controller)
           /\ ~controller.derivative_on_measurement
           /\ controller.max_output_value = F64_MAX
           /\ controller.target # LastCall.target
           /\ log'[Len(log')].time_elapsed # Zero)
          => output' # Compute([controller EXCEPT !.target = LastCall.target],
                               log'[Len(log')].input,
                               log'[Len(log')].time_elapsed)]_vars

\* a derivative-only controller on measurement whose target was changed
\* between two samples has returned, at a nonzero elapsed time, the nonzero
\* output of the controller whose target was never changed
C10_Witness ==
    /\ Running /\ Len(log) >= 2
    /\ OnlyD(controller) /\ controller.derivative_on_measurement
    /\ log[Len(log)].target # log[Len(log) - 1].target
    /\ shadow.target # controller.target
    /\ LastCall.time_elapsed # Zero
    /\ output # Zero
    /\ output = shadowOutput

====
